---- MODULE Spec2Model ----
(***************************************************************************)
(* Contacts API of main.py: the FastAPI application `app` with its routes  *)
(* in declaration order, the authentication routes of `router`, the        *)
(* current-user dependency and the handlers.  The modules main.py imports  *)
(* (crud, auth, models, schemas, db) are not part of the sources; their    *)
(* operations are modelled from the specification (section 3, 4 and 6).    *)
(* The routes of `router` are taken as mounted on the application, and    *)
(* `from main import get_current_user` as naming the function of line 88.  *)
(* Requests are handled one at a time.                                     *)
(*                                                                         *)
(* Time is counted in minutes since midnight of day 0.  A birthday is a    *)
(* day number; compared with a datetime it stands for midnight of its day. *)
(* Text fields of a contact are sequences of one-character strings.        *)
(***************************************************************************)
EXTENDS Integers, Sequences, FiniteSets, TLC

VARIABLES users, contacts, nextContactId, now, held, last

vars == <<users, contacts, nextContactId, now, held, last>>

(***************************** bounds **************************************)
MaxUsers == 2
MaxContacts == 2
MaxClockSteps == 1

(************************** program constants ******************************)
ACCESS_TOKEN_EXPIRE_MINUTES == 30
UPCOMING_DAYS == 7
MinutesPerDay == 1440
REFRESH_TOKEN_EXPIRE_MINUTES == 10080

ClockStep == ACCESS_TOKEN_EXPIRE_MINUTES + 1

(***************************** input sets **********************************)
\* username and password of a registration, and of a login
RegisterInputs == {<<"1", "p">>, <<"2", "p">>, <<"a", "q">>}
LoginInputs == RegisterInputs \cup {<<"1", "q">>}

ContactInputs ==
  { [first_name |-> <<"A", "n">>, last_name |-> <<"L", "i">>,
     email |-> <<"a", "@", "x">>, birthday |-> 0],
    [first_name |-> <<"B", "o">>, last_name |-> <<"L", "e">>,
     email |-> <<"b", "@", "x">>, birthday |-> 7] }

\* name, surname, email of a search; <<>> is a filter left out
SearchInputs ==
  { <<<<"z">>, <<>>, <<>>>>, <<<<"N">>, <<"l">>, <<"@">>>> }

\* the payload of an update request
UpdateInput ==
  [first_name |-> <<"Z", "o">>, last_name |-> <<"L", "u">>,
   email |-> <<"z", "@", "x">>, birthday |-> 8]

(************************** values and conversions *************************)
Digits == <<"0", "1", "2", "3", "4", "5", "6", "7", "8", "9">>

RECURSIVE IdStr(_)
\* str(user.id): the decimal text of a non-negative integer
IdStr(n) ==
  IF n < 10 THEN Digits[n + 1]
  ELSE IdStr(n \div 10) \o Digits[(n % 10) + 1]

IntRange == 0 .. 12

\* the int conversion of a path parameter: -1 when the text is no integer
ParseInt(seg) ==
  IF \E n \in IntRange : IdStr(n) = seg
  THEN CHOOSE n \in IntRange : IdStr(n) = seg
  ELSE -1

NoUser == [id |-> 0, username |-> "", password |-> <<"", "">>]

NoContact ==
  [id |-> 0, first_name |-> <<>>, last_name |-> <<>>, email |-> <<>>,
   birthday |-> 0, user_id |-> 0]

NoPayload ==
  [first_name |-> <<>>, last_name |-> <<>>, email |-> <<>>, birthday |-> 0]

AbsentToken == [sub |-> "", exp |-> 0, sig |-> "absent"]

NoWallet == [username |-> "", access |-> AbsentToken, refresh |-> AbsentToken]

\* a token whose payload was altered after signing (expiry extended)
Tamper(t) ==
  [sub |-> t.sub, exp |-> t.exp + ACCESS_TOKEN_EXPIRE_MINUTES, sig |-> "bad"]

(******************************* auth module *******************************)
create_access_token(sub, expires_delta) ==
  [sub |-> sub, exp |-> now + expires_delta, sig |-> "ok"]

create_refresh_token(sub) ==
  [sub |-> sub, exp |-> now + REFRESH_TOKEN_EXPIRE_MINUTES, sig |-> "ok"]

verify_token(token) ==
  IF token.sig = "ok" /\ token.exp >= now
  THEN [ok |-> TRUE, sub |-> token.sub]
  ELSE [ok |-> FALSE, sub |-> ""]

get_password_hash(password) == <<"bcrypt", password>>

verify_password(plain_password, hashed_password) ==
  hashed_password = <<"bcrypt", plain_password>>

(***************************** persistence *********************************)
\* db.query(User).filter(User.username == name).first()
UserByUsername(name) ==
  LET found == {i \in 1 .. Len(users) : users[i].username = name}
  IN IF found = {} THEN NoUser
     ELSE users[CHOOSE i \in found : \A j \in found : i <= j]

\* crud.get_contact
get_contact(contact_id) ==
  IF \E c \in contacts : c.id = contact_id
  THEN CHOOSE c \in contacts : c.id = contact_id
  ELSE NoContact

\* the row crud.create_contact stores
NewContact(payload, user_id) ==
  [id |-> nextContactId, first_name |-> payload.first_name,
   last_name |-> payload.last_name, email |-> payload.email,
   birthday |-> payload.birthday, user_id |-> user_id]

\* the row crud.update_contact leaves
UpdatedContact(c, payload) ==
  [id |-> c.id, first_name |-> payload.first_name,
   last_name |-> payload.last_name, email |-> payload.email,
   birthday |-> payload.birthday, user_id |-> c.user_id]

\* the contact ids a client asks for
ContactIds == {IdStr(n) : n \in 1 .. MaxContacts}

(************************** responses and requests *************************)
\* A handler's outcome: the response and the stored data it leaves.
\* handler: the endpoint the route table chose; ran: its body was entered.
Respond(handler, ran, status) ==
  [handler |-> handler, ran |-> ran, status |-> status, www_auth |-> FALSE,
   user |-> 0, contact |-> NoContact, list |-> {},
   access |-> AbsentToken, refresh |-> AbsentToken,
   users |-> users, contacts |-> contacts, nextContactId |-> nextContactId]

Request(method, path) ==
  [method |-> method, path |-> path, token |-> AbsentToken,
   username |-> "", password |-> "", refresh_token |-> AbsentToken,
   payload |-> NoPayload, name |-> <<>>, surname |-> <<>>, email |-> <<>>]

(************************ current-user resolution **************************)
\* OAuth2PasswordBearer: the Authorization header carries a bearer token
oauth2_scheme(token) == token.sig # "absent"

\* credentials_exception of get_current_user and refresh_access_token
credentials_exception(handler) ==
  [Respond(handler, FALSE, 401) EXCEPT !.www_auth = TRUE]

\* mutant: the missing-user check left out
UserNeverMissing(user) == FALSE

\* `if user is None: raise credentials_exception`
UserMissing(user) == user = NoUser

get_current_user(token) ==
  IF ~oauth2_scheme(token) THEN [ok |-> FALSE, user |-> NoUser]
  ELSE LET v == verify_token(token)
       IN IF ~v.ok THEN [ok |-> FALSE, user |-> NoUser]
          ELSE LET user == UserByUsername(v.sub)
               IN IF UserMissing(user) THEN [ok |-> FALSE, user |-> NoUser]
                  ELSE [ok |-> TRUE, user |-> user]

(******************************* handlers **********************************)
read_root(req) == Respond("read_root", TRUE, 200)

\* mutant: every contact stored under the first user
OwnerFirst(current_user) == 1

\* `user_id=current_user.id`
OwnerOf(current_user) == current_user.id

create_contact(req) ==
  LET cu == get_current_user(req.token)
  IN IF ~cu.ok THEN credentials_exception("create_contact")
     ELSE LET c == NewContact(req.payload, OwnerOf(cu.user))
          IN [Respond("create_contact", TRUE, 201) EXCEPT
                !.user = cu.user.id, !.contact = c,
                !.contacts = contacts \cup {c},
                !.nextContactId = nextContactId + 1]

\* mutant: the ownership test left out
ReadDeniedNoOwner(db_contact, current_user) == db_contact = NoContact

\* `db_contact is None or db_contact.user_id != current_user.id`
ReadDenied(db_contact, current_user) ==
  db_contact = NoContact \/ db_contact.user_id # current_user.id

read_contact(req, seg) ==
  LET cu == get_current_user(req.token)
      contact_id == ParseInt(seg)
  IN IF ~cu.ok THEN credentials_exception("read_contact")
     ELSE IF contact_id = -1
     THEN [Respond("read_contact", FALSE, 422) EXCEPT !.user = cu.user.id]
     ELSE LET db_contact == get_contact(contact_id)
          IN IF ReadDenied(db_contact, cu.user)
             THEN [Respond("read_contact", TRUE, 404) EXCEPT
                     !.user = cu.user.id]
             ELSE [Respond("read_contact", TRUE, 200) EXCEPT
                     !.user = cu.user.id, !.contact = db_contact]

update_contact(req, seg) ==
  LET cu == get_current_user(req.token)
      contact_id == ParseInt(seg)
  IN IF ~cu.ok THEN credentials_exception("update_contact")
     ELSE IF contact_id = -1
     THEN [Respond("update_contact", FALSE, 422) EXCEPT !.user = cu.user.id]
     ELSE LET old == get_contact(contact_id)
          IN IF old = NoContact \/ old.user_id # cu.user.id
             THEN [Respond("update_contact", TRUE, 404) EXCEPT
                     !.user = cu.user.id]
             ELSE LET c == UpdatedContact(old, req.payload)
                  IN [Respond("update_contact", TRUE, 200) EXCEPT
                        !.user = cu.user.id, !.contact = c,
                        !.contacts = (contacts \ {old}) \cup {c}]

\* mutant: delete with the current-user dependency and ownership test of read
delete_contact_owned(req, seg) ==
  LET cu == get_current_user(req.token)
      contact_id == ParseInt(seg)
  IN IF ~cu.ok THEN credentials_exception("delete_contact")
     ELSE IF contact_id = -1 THEN Respond("delete_contact", FALSE, 422)
     ELSE LET db_contact == get_contact(contact_id)
          IN IF db_contact = NoContact \/ db_contact.user_id # cu.user.id
             THEN Respond("delete_contact", TRUE, 404)
             ELSE [Respond("delete_contact", TRUE, 200) EXCEPT
                     !.contact = db_contact,
                     !.contacts = contacts \ {db_contact}]

delete_contact(req, seg) ==
  LET contact_id == ParseInt(seg)
  IN IF contact_id = -1 THEN Respond("delete_contact", FALSE, 422)
     ELSE LET db_contact == get_contact(contact_id)
          IN IF db_contact = NoContact
             THEN Respond("delete_contact", TRUE, 404)
             ELSE [Respond("delete_contact", TRUE, 200) EXCEPT
                     !.contact = db_contact,
                     !.contacts = contacts \ {db_contact}]

(* ilike: case folding and the LIKE wildcards % and _ *)
Lower(ch) ==
  CASE ch = "A" -> "a" [] ch = "B" -> "b" [] ch = "L" -> "l"
    [] ch = "Z" -> "z" [] OTHER -> ch

RECURSIVE Like(_, _)
Like(text, pattern) ==
  IF pattern = <<>> THEN text = <<>>
  ELSE IF Head(pattern) = "%"
  THEN Like(text, Tail(pattern)) \/ (text # <<>> /\ Like(Tail(text), pattern))
  ELSE /\ text # <<>>
       /\ Head(pattern) = "_" \/ Lower(Head(pattern)) = Lower(Head(text))
       /\ Like(Tail(text), Tail(pattern))

\* column.ilike(f"%{value}%")
ilike(column, value) == Like(column, <<"%">> \o value \o <<"%">>)

search_contacts(req) ==
  LET results ==
        {c \in contacts :
           /\ req.name # <<>> => ilike(c.first_name, req.name)
           /\ req.surname # <<>> => ilike(c.last_name, req.surname)
           /\ req.email # <<>> => ilike(c.email, req.email)}
  IN IF results = {} THEN Respond("search_contacts", TRUE, 404)
     ELSE [Respond("search_contacts", TRUE, 200) EXCEPT !.list = results]

\* Contact.birthday.between(today, upcoming), a date against two datetimes
between(birthday, today, upcoming) ==
  today <= birthday * MinutesPerDay /\ birthday * MinutesPerDay <= upcoming

get_upcoming_birthdays(req) ==
  LET today == now
      upcoming == today + UPCOMING_DAYS * MinutesPerDay
      found == {c \in contacts : between(c.birthday, today, upcoming)}
  IN IF found = {} THEN Respond("get_upcoming_birthdays", TRUE, 404)
     ELSE [Respond("get_upcoming_birthdays", TRUE, 200) EXCEPT !.list = found]

\* mutant: the existing-user query finds nothing
ExistingUserNone(username) == NoUser

\* `existing_user = db.query(User).filter(User.username == username).first()`
ExistingUser(username) == UserByUsername(username)

register_user(req) ==
  IF ExistingUser(req.username) # NoUser
  THEN Respond("register_user", TRUE, 409)
  ELSE LET new_user == [id |-> Len(users) + 1, username |-> req.username,
                        password |-> get_password_hash(req.password)]
       IN [Respond("register_user", TRUE, 201) EXCEPT
             !.users = Append(users, new_user)]

login_user(req) ==
  LET user == UserByUsername(req.username)
  IN IF user = NoUser \/ ~verify_password(req.password, user.password)
     THEN Respond("login_user", TRUE, 401)
     ELSE [Respond("login_user", TRUE, 200) EXCEPT
             !.access = create_access_token(IdStr(user.id),
                                            ACCESS_TOKEN_EXPIRE_MINUTES),
             !.refresh = create_refresh_token(IdStr(user.id))]

\* `data={"sub": user_id}` of the new access token
RefreshSubject(user_id) == user_id

\* mutant: the refresh token is decoded but not verified
refresh_access_token_unverified(req) ==
  [Respond("refresh_access_token", TRUE, 200) EXCEPT
     !.access = create_access_token(RefreshSubject(req.refresh_token.sub),
                                    ACCESS_TOKEN_EXPIRE_MINUTES)]

refresh_access_token(req) ==
  LET v == verify_token(req.refresh_token)
  IN IF ~v.ok THEN credentials_exception("refresh_access_token")
     ELSE [Respond("refresh_access_token", TRUE, 200) EXCEPT
             !.access = create_access_token(RefreshSubject(v.sub),
                                            ACCESS_TOKEN_EXPIRE_MINUTES)]

(******************************** routing **********************************)
\* "/contacts/" is the segments <<"contacts", "">>
ContactsRoot == <<"contacts", "">>
ContactPath(seg) == <<"contacts", seg>>

\* mutant: update_contact bound to PUT /contacts/{contact_id}
APP_ROUTES_with_update ==
  << [method |-> "GET", path |-> <<"">>, handler |-> "read_root"],
     [method |-> "POST", path |-> ContactsRoot, handler |-> "create_contact"],
     [method |-> "GET", path |-> ContactPath("{contact_id}"),
      handler |-> "read_contact"],
     [method |-> "PUT", path |-> ContactPath("{contact_id}"),
      handler |-> "update_contact"],
     [method |-> "DELETE", path |-> ContactPath("{contact_id}"),
      handler |-> "delete_contact"],
     [method |-> "GET", path |-> ContactPath("search"),
      handler |-> "search_contacts"],
     [method |-> "GET", path |-> ContactPath("upcoming-birthdays"),
      handler |-> "get_upcoming_birthdays"] >>

\* the routes of `app`, in the order their decorators run
APP_ROUTES ==
  << [method |-> "GET", path |-> <<"">>, handler |-> "read_root"],
     [method |-> "POST", path |-> ContactsRoot, handler |-> "create_contact"],
     [method |-> "GET", path |-> ContactPath("{contact_id}"),
      handler |-> "read_contact"],
     [method |-> "DELETE", path |-> ContactPath("{contact_id}"),
      handler |-> "delete_contact"],
     [method |-> "GET", path |-> ContactPath("search"),
      handler |-> "search_contacts"],
     [method |-> "GET", path |-> ContactPath("upcoming-birthdays"),
      handler |-> "get_upcoming_birthdays"] >>

\* the routes of `router`
ROUTER_ROUTES ==
  << [method |-> "POST", path |-> <<"register">>, handler |-> "register_user"],
     [method |-> "POST", path |-> <<"login">>, handler |-> "login_user"],
     [method |-> "POST", path |-> <<"refresh">>,
      handler |-> "refresh_access_token"] >>

ROUTES == APP_ROUTES \o ROUTER_ROUTES

\* a path parameter matches one non-empty segment
SegmentMatches(pattern, seg) ==
  IF pattern = "{contact_id}" THEN seg # "" ELSE pattern = seg

PathMatches(pattern, path) ==
  /\ Len(pattern) = Len(path)
  /\ \A i \in 1 .. Len(path) : SegmentMatches(pattern[i], path[i])

\* the first route matching path and method; 405 when only paths match
Route(method, path) ==
  LET full == {i \in 1 .. Len(ROUTES) :
                 PathMatches(ROUTES[i].path, path) /\ ROUTES[i].method = method}
      partial == {i \in 1 .. Len(ROUTES) : PathMatches(ROUTES[i].path, path)}
  IN IF full # {}
     THEN [status |-> 200, index |-> CHOOSE i \in full : \A j \in full : i <= j]
     ELSE IF partial # {} THEN [status |-> 405, index |-> 0]
     ELSE [status |-> 404, index |-> 0]

Endpoint(handler, req) ==
  CASE handler = "read_root" -> read_root(req)
    [] handler = "create_contact" -> create_contact(req)
    [] handler = "read_contact" -> read_contact(req, req.path[2])
    [] handler = "update_contact" -> update_contact(req, req.path[2])
    [] handler = "delete_contact" -> delete_contact(req, req.path[2])
    [] handler = "search_contacts" -> search_contacts(req)
    [] handler = "get_upcoming_birthdays" -> get_upcoming_birthdays(req)
    [] handler = "register_user" -> register_user(req)
    [] handler = "login_user" -> login_user(req)
    [] handler = "refresh_access_token" -> refresh_access_token(req)

Dispatch(req) ==
  LET m == Route(req.method, req.path)
  IN IF m.status # 200 THEN Respond("", FALSE, m.status)
     ELSE Endpoint(ROUTES[m.index].handler, req)

(***************************** the system **********************************)
\* the last request and its response, as the client saw them
Log(req, r) ==
  [method |-> req.method, path |-> req.path, token |-> req.token,
   username |-> req.username, password |-> req.password,
   refresh_token |-> req.refresh_token, payload |-> req.payload,
   name |-> req.name, surname |-> req.surname, email |-> req.email,
   handler |-> r.handler, ran |-> r.ran, status |-> r.status,
   www_auth |-> r.www_auth, user |-> r.user, contact |-> r.contact,
   list |-> r.list, access |-> r.access, refresh |-> r.refresh, at |-> now]

Idle == Log(Request("", <<>>), Respond("", FALSE, 0))

\* the client keeps the tokens of its last login and its last refresh, and
\* the username it logged in with
Keep(req, r) ==
  IF r.handler = "login_user" /\ r.status = 200
  THEN [username |-> req.username, access |-> r.access, refresh |-> r.refresh]
  ELSE IF r.handler = "refresh_access_token" /\ r.status = 200
  THEN [held EXCEPT !.access = r.access]
  ELSE held

Serve(req) ==
  \E r \in {Dispatch(req)} :
     /\ users' = r.users
     /\ contacts' = r.contacts
     /\ nextContactId' = r.nextContactId
     /\ held' = Keep(req, r)
     /\ last' = Log(req, r)
     /\ now' = now

\* what a client can put in the Authorization header
BearerTokens == {AbsentToken, held.access, Tamper(held.access)}

\* what a client can pass as refresh_token
RefreshTokens == {held.refresh, held.access, Tamper(held.refresh)}

Init ==
  /\ users = <<>>
  /\ contacts = {}
  /\ nextContactId = 1
  /\ now = 0
  /\ held = NoWallet
  /\ last = Idle

GetRoot ==
  \E req \in {Request("GET", <<"">>)} : Serve(req)

Register ==
  \E in \in RegisterInputs :
    /\ Len(users) < MaxUsers \/ UserByUsername(in[1]) # NoUser
    /\ Serve([Request("POST", <<"register">>) EXCEPT
                !.username = in[1], !.password = in[2]])

Login ==
  \E in \in LoginInputs :
    Serve([Request("POST", <<"login">>) EXCEPT
             !.username = in[1], !.password = in[2]])

Refresh ==
  \E t \in RefreshTokens :
    Serve([Request("POST", <<"refresh">>) EXCEPT !.refresh_token = t])

PostContact ==
  /\ nextContactId <= MaxContacts
  /\ \E t \in BearerTokens, payload \in ContactInputs :
       Serve([Request("POST", ContactsRoot) EXCEPT
                !.token = t, !.payload = payload])

GetContact ==
  \E t \in BearerTokens, seg \in ContactIds :
    Serve([Request("GET", ContactPath(seg)) EXCEPT !.token = t])

PutContact ==
  \E m \in {"PUT", "PATCH"}, seg \in ContactIds :
    Serve([Request(m, ContactPath(seg)) EXCEPT
             !.token = held.access, !.payload = UpdateInput])

DeleteContact ==
  \E t \in {AbsentToken, held.access}, seg \in ContactIds :
    Serve([Request("DELETE", ContactPath(seg)) EXCEPT !.token = t])

GetSearch ==
  \E t \in BearerTokens, q \in SearchInputs :
    Serve([Request("GET", ContactPath("search")) EXCEPT
             !.token = t, !.name = q[1], !.surname = q[2], !.email = q[3]])

GetUpcomingBirthdays ==
  \E t \in BearerTokens :
    Serve([Request("GET", ContactPath("upcoming-birthdays")) EXCEPT
             !.token = t])

AdvanceClock ==
  /\ now + ClockStep <= MaxClockSteps * ClockStep
  /\ now' = now + ClockStep
  /\ last' = Idle
  /\ UNCHANGED <<users, contacts, nextContactId, held>>

Next ==
  \/ GetRoot
  \/ Register
  \/ Login
  \/ Refresh
  \/ PostContact
  \/ GetContact
  \/ PutContact
  \/ DeleteContact
  \/ GetSearch
  \/ GetUpcomingBirthdays
  \/ AdvanceClock

Spec == Init /\ [][Next]_vars

(******************************* claims ************************************)
ProtectedHandlers == {"create_contact", "read_contact"}

\* the stored users with a given username / a given id
UsersNamed(us, name) == {i \in 1 .. Len(us) : us[i].username = name}
UsersWithId(us, id) == {i \in 1 .. Len(us) : us[i].id = id}

\* a token that is signed, unmodified and unexpired at time t
Sound(token, t) == token.sig = "ok" /\ token.exp >= t

\* the stored data is what it was before the step
DataUnchanged ==
  /\ users' = users
  /\ contacts' = contacts
  /\ nextContactId' = nextContactId

\* C1: a sound access token obtained by logging in as u, presented on a
\* protected route, resolves to u: the request is not answered 401 and the
\* current user is the user stored under the username that logged in.
C1_LoginTokenResolvesToSameUser ==
  ( /\ last.handler \in ProtectedHandlers
    /\ held.username # ""
    /\ last.token = held.access
    /\ Sound(last.token, last.at) )
  => /\ last.status # 401
     /\ \E i \in UsersNamed(users, held.username) : users[i].id = last.user

\* one step, seen from a register request
C2_RegisterStep ==
  /\ \A i, j \in 1 .. Len(users') :
       users'[i].username = users'[j].username => i = j
  /\ last'.handler = "register_user" =>
       IF UsersNamed(users, last'.username) # {}
       THEN last'.status = 409 /\ users' = users
       ELSE /\ last'.status = 201
            /\ Len(users') = Len(users) + 1
            /\ SubSeq(users', 1, Len(users)) = users
            /\ users'[Len(users')].username = last'.username

\* C2: usernames stay unique; a register request with a stored username is
\* answered 409 and leaves the users as they are, one with a fresh username is
\* answered 201 and appends exactly one user with that username.
C2_RegisterKeepsUsernamesUnique == [][C2_RegisterStep]_vars

C2_Witness ==
  /\ last.handler = "register_user"
  /\ last.status = 409
  /\ Len(users) = 2

\* the tokens the claim is about, and one step seen from such a request
C3_Rejected(token) ==
  \/ token.sig = "bad"
  \/ token.sig = "ok" /\ token.exp < now
  \/ token.sig = "ok" /\ UsersNamed(users, token.sub) = {}

C3_RejectStep ==
  (last'.handler \in ProtectedHandlers /\ C3_Rejected(last'.token))
  => /\ last'.status = 401
     /\ last'.www_auth
     /\ ~last'.ran
     /\ last'.user = 0
     /\ DataUnchanged

\* C3: on a protected route a token that is tampered, expired, or whose
\* subject names no stored user is answered 401 with WWW-Authenticate:
\* Bearer, the handler body is not entered and the stored data is unchanged.
C3_BadTokenIs401 == [][C3_RejectStep]_vars

C3_Witness ==
  /\ last.handler = "create_contact"
  /\ last.token.sig = "ok"
  /\ last.token.exp < last.at
  /\ UsersNamed(users, last.token.sub) # {}
  /\ last.status = 401

\* the contacts of id seg owned by u; one step of read or create
C4_Owned(u, seg) == {c \in contacts : IdStr(c.id) = seg /\ c.user_id = u}

C4_Fields(c) ==
  [first_name |-> c.first_name, last_name |-> c.last_name,
   email |-> c.email, birthday |-> c.birthday]

C4_ReadStep ==
  /\ (last'.handler = "read_contact" /\ last'.ran) =>
       /\ contacts' = contacts
       /\ IF C4_Owned(last'.user, last'.path[2]) # {}
          THEN last'.status = 200
               /\ last'.contact \in C4_Owned(last'.user, last'.path[2])
          ELSE last'.status = 404 /\ last'.contact = NoContact
  /\ (last'.handler = "create_contact" /\ last'.ran) =>
       /\ last'.status = 201
       /\ C4_Fields(last'.contact) = last'.payload
       /\ last'.contact.user_id = last'.user
       /\ last'.contact \in contacts'
       /\ \A c \in contacts : c.id # last'.contact.id

\* C4: read_contact, entered for current user u, answers 200 with the stored
\* contact of that id when it exists and is owned by u, and 404 with no
\* contact data otherwise; a contact u created is stored with the field
\* values of the request and is read back unchanged.
C4_ReadOwnContactOnly == [][C4_ReadStep]_vars

C4_Witness ==
  /\ last.handler = "read_contact"
  /\ last.status = 200
  /\ last.contact.user_id = last.user
  /\ \E c \in contacts : c.user_id # last.user

C4_WitnessOther ==
  /\ last.handler = "read_contact"
  /\ last.status = 404
  /\ \E c \in contacts : IdStr(c.id) = last.path[2] /\ c.user_id # last.user

\* one step, seen from a DELETE request
C5_DeleteStep ==
  last'.method = "DELETE" =>
    LET hit == {c \in contacts : IdStr(c.id) = last'.path[2]}
    IN /\ last'.handler = "delete_contact"
       /\ last'.ran
       /\ users' = users
       /\ IF hit = {}
          THEN last'.status = 404 /\ contacts' = contacts
          ELSE /\ last'.status = 200
               /\ last'.contact \in hit
               /\ contacts' = contacts \ {last'.contact}

\* C5: DELETE /contacts/{id} is decided by the stored contacts alone: 404 and
\* no change when no contact has the id, else that contact, and only it, is
\* removed and returned, whatever token the request carries.
C5_DeleteIgnoresCaller == [][C5_DeleteStep]_vars

C5_Witness ==
  /\ last.method = "DELETE"
  /\ last.status = 200
  /\ last.token = AbsentToken
  /\ last.contact.user_id # 0
  /\ contacts # {}

\* case-insensitive substring
C6_Contains(text, part) ==
  \E i \in 1 .. Len(text) - Len(part) + 1 :
    \A k \in 1 .. Len(part) : Lower(text[i + k - 1]) = Lower(part[k])

\* one step, seen from a search request
C6_SearchStep ==
  (last'.method = "GET" /\ last'.path = ContactPath("search")) =>
    LET expected ==
          {c \in contacts :
             /\ C6_Contains(c.first_name, last'.name)
             /\ C6_Contains(c.last_name, last'.surname)
             /\ C6_Contains(c.email, last'.email)}
    IN /\ last'.handler = "search_contacts"
       /\ IF expected = {} THEN last'.status = 404
          ELSE last'.status = 200 /\ last'.list = expected

\* C6: GET /contacts/search is handled by search_contacts and returns the
\* stored contacts matching every given filter, or 404 when there are none.
C6_SearchIsRouted == [][C6_SearchStep]_vars

\* one step, seen from an upcoming-birthdays request
C7_BirthdayStep ==
  (last'.method = "GET" /\ last'.path = ContactPath("upcoming-birthdays")) =>
    LET day == now \div MinutesPerDay
        expected ==
          {c \in contacts : day <= c.birthday /\ c.birthday <= day + 7}
    IN IF expected = {} THEN last'.status = 404
       ELSE last'.status = 200 /\ last'.list = expected

\* C7: GET /contacts/upcoming-birthdays returns the stored contacts whose
\* birthday is one of the days today .. today + 7, or 404 when there are none.
C7_UpcomingWindowInclusive == [][C7_BirthdayStep]_vars

\* one step, seen from a refresh request
C8_RefreshStep ==
  last'.handler = "refresh_access_token" =>
    /\ DataUnchanged
    /\ IF Sound(last'.refresh_token, now)
       THEN /\ last'.status = 200
            /\ last'.access.sig = "ok"
            /\ last'.access.sub = last'.refresh_token.sub
            /\ last'.access.exp = now + ACCESS_TOKEN_EXPIRE_MINUTES
            /\ \E i \in UsersNamed(users, held.username) :
                 IdStr(users[i].id) = last'.access.sub
       ELSE /\ last'.status = 401
            /\ last'.access = AbsentToken
            /\ held' = held

\* C8: /refresh with a sound token answers 200 with a new access token for
\* the same subject, which is the user who logged in; with any other token it
\* answers 401 and issues nothing.  Stored data is never changed.
C8_RefreshKeepsSubject == [][C8_RefreshStep]_vars

C8_Witness ==
  /\ last.handler = "refresh_access_token"
  /\ last.status = 200
  /\ last.access.sub = last.refresh_token.sub
  /\ last.access.exp = last.at + ACCESS_TOKEN_EXPIRE_MINUTES
  /\ last.refresh_token.exp < last.at + REFRESH_TOKEN_EXPIRE_MINUTES

\* one step, seen from the stored contacts
C9_OwnerStep ==
  /\ \A c \in contacts' : UsersWithId(users', c.user_id) # {}
  /\ \A c \in contacts' \ contacts :
       /\ last'.handler = "create_contact"
       /\ last'.status = 201
       /\ c.user_id = last'.user
       /\ \E i \in UsersNamed(users, last'.token.sub) : users[i].id = c.user_id
  /\ \A c \in contacts', d \in contacts : c.id = d.id => c.user_id = d.user_id

\* C9: every stored contact is owned by a stored user; a contact enters the
\* store only through create_contact, owned by the current user resolved
\* from the request's token, and its owner never changes.
C9_OwnerIsCreator == [][C9_OwnerStep]_vars

C9_Witness ==
  /\ last.handler = "create_contact"
  /\ last.status = 201
  /\ last.contact.user_id = 2
  /\ last.contact \in contacts

\* one step, seen from the stored contacts and the request
C10_FrameStep ==
  /\ last'.handler # "update_contact"
  /\ last'.method \in {"PUT", "PATCH"} => last'.status = 405 /\ ~last'.ran
  /\ \A c \in contacts', d \in contacts : c.id = d.id => c = d
  /\ contacts' # contacts =>
       \/ /\ last'.handler = "create_contact"
          /\ \E c \in contacts' \ contacts : contacts' = contacts \cup {c}
       \/ /\ last'.handler = "delete_contact"
          /\ \E c \in contacts : contacts' = contacts \ {c}

\* C10: no request reaches update_contact; a stored contact keeps its fields
\* until it is deleted, and the contacts change only by create_contact adding
\* one or delete_contact removing one.
C10_UpdateUnreachable == [][C10_FrameStep]_vars

C10_Witness ==
  /\ last.method = "PUT"
  /\ last.status = 405
  /\ Sound(last.token, last.at)
  /\ \E c \in contacts :
       /\ IdStr(c.id) = last.path[2]
       /\ C4_Fields(c) # last.payload
       /\ \E i \in UsersNamed(users, last.token.sub) : users[i].id = c.user_id

====
